---- MODULE Spec2Model ----
(***************************************************************************)
(* A model of src/chatbot.py: the TerminalChatbot session (transcript,     *)
(* model identifier, configuration), its single HTTP exchange              *)
(* make_api_request, and the interactive loop run() with its commands.     *)
(*                                                                         *)
(* Text is a sequence of one-character strings, so that strip(), lower(),  *)
(* isdigit(), int() and the [:100] slice are computed, not assumed.        *)
(***************************************************************************)
EXTENDS Integers, Sequences, FiniteSets, TLC

(***************************************************************************)
(* Bounds of the model.                                                    *)
(***************************************************************************)
\* submissions are explored while the transcript can still take a full pair
MaxHistory == 4

(***************************************************************************)
(* Program constants.                                                      *)
(***************************************************************************)
\* msg['content'][:100] ... if len(msg['content']) > 100
HistoryLimit == 100
\* self.max_tokens = 1000
DefaultMaxTokens == 1000
\* "temperature": 0.7, in tenths
TemperatureTenths == 7
\* HTTP status codes the handler names
HTTP_UNAUTHORIZED == 401
HTTP_TOO_MANY == 429
HTTP_BAD_REQUEST == 400

DefaultModel == "deepseek/deepseek-r1-0528:free"
\* stands for the literal credential of __init__
DefaultApiKey == "sk-or-v1-default"
DefaultApiUrl == "https://openrouter.ai/api/v1/chat/completions"

\* the list of switch_models
models == <<"gpt-3.5-turbo", "gpt-4", "gpt-4-turbo-preview">>

(***************************************************************************)
(* Text: str.strip(), str.lower(), str.isdigit(), int().                   *)
(***************************************************************************)
Rep(c, n) == [i \in 1..n |-> c]

UpperCase == <<"A","B","C","D","E","F","G","H","I","J","K","L","M",
               "N","O","P","Q","R","S","T","U","V","W","X","Y","Z">>
LowerCase == <<"a","b","c","d","e","f","g","h","i","j","k","l","m",
               "n","o","p","q","r","s","t","u","v","w","x","y","z">>

IsSpace(c) == c \in {" ", "\t"}

RECURSIVE LStrip(_)
LStrip(s) ==
    IF Len(s) = 0 THEN s
    ELSE IF IsSpace(Head(s)) THEN LStrip(Tail(s)) ELSE s

RECURSIVE RStrip(_)
RStrip(s) ==
    IF Len(s) = 0 THEN s
    ELSE IF IsSpace(s[Len(s)]) THEN RStrip(SubSeq(s, 1, Len(s) - 1)) ELSE s

\* str.strip()
Strip(s) == RStrip(LStrip(s))

LowerChar(c) ==
    IF \E i \in 1..26 : UpperCase[i] = c
    THEN LowerCase[CHOOSE i \in 1..26 : UpperCase[i] = c]
    ELSE c

\* str.lower()
Lower(s) == [i \in 1..Len(s) |-> LowerChar(s[i])]

DecimalDigits == <<"0","1","2","3","4","5","6","7","8","9">>
IsDecimal(c) == \E i \in 1..10 : DecimalDigits[i] = c
DigitValue(c) == (CHOOSE i \in 1..10 : DecimalDigits[i] = c) - 1

\* "SUP2" stands for U+00B2 (superscript two): str.isdigit() accepts it,
\* int() raises ValueError on it
IsDigitChar(c) == IsDecimal(c) \/ c = "SUP2"

\* str.isdigit(): non-empty and every character a digit
IsDigit(s) == Len(s) > 0 /\ \A i \in 1..Len(s) : IsDigitChar(s[i])

\* int() parses when every character is a decimal digit (given isdigit())
IntParses(s) == Len(s) > 0 /\ \A i \in 1..Len(s) : IsDecimal(s[i])

RECURSIVE IntOf(_)
IntOf(s) ==
    IF Len(s) = 0 THEN 0
    ELSE 10 * IntOf(SubSeq(s, 1, Len(s) - 1)) + DigitValue(s[Len(s)])

(***************************************************************************)
(* The words of the loop and the texts used as inputs.                     *)
(***************************************************************************)
W_quit == <<"q","u","i","t">>
W_exit == <<"e","x","i","t">>
W_bye == <<"b","y","e">>
W_clear == <<"c","l","e","a","r">>
W_help == <<"h","e","l","p">>
W_history == <<"h","i","s","t","o","r","y">>
W_reset == <<"r","e","s","e","t">>
W_model == <<"m","o","d","e","l">>
W_models == <<"m","o","d","e","l","s">>


T_Hi == <<"H","i">>
T_long100 == Rep("a", HistoryLimit)
T_long101 == Rep("a", HistoryLimit + 1)
T_quota == <<"q","u","o","t","a">>

(***************************************************************************)
(* Messages and the values make_api_request returns.                       *)
(***************************************************************************)
Message(role, content) == [role |-> role, content |-> content]

\* a returned string: its fixed part (kind), the status code and the text
\* interpolated into it
Ret(kind, code, text) == [kind |-> kind, code |-> code, text |-> text]
NoReturn == Ret("none", 0, <<>>)

\* the data dictionary posted to the endpoint
RequestData(m, messages, tokens, url, key) ==
    [sent |-> TRUE, model |-> m, messages |-> messages, max_tokens |-> tokens,
     temperature |-> TemperatureTenths, url |-> url, authorization |-> key]
NoRequest ==
    [sent |-> FALSE, model |-> "", messages |-> <<>>, max_tokens |-> 0,
     temperature |-> 0, url |-> "", authorization |-> ""]

(***************************************************************************)
(* What urlopen can do: return a response, raise HTTPError, raise another  *)
(* exception, or be interrupted (KeyboardInterrupt).  A body is given by   *)
(* whether it decodes as UTF-8, the shape of its JSON, its raw text and    *)
(* the field the code extracts from it.                                    *)
(***************************************************************************)
Resp(kind, code, utf8, json, raw, text) ==
    [kind |-> kind, code |-> code, utf8 |-> utf8, json |-> json,
     raw |-> raw, text |-> text]
NoResp == Resp("none", 0, TRUE, "none", <<>>, <<>>)

ReplyContents == {T_long100, T_long101}

SuccessResponses ==
    {Resp("response", 200, TRUE, "choice", <<"{\"choices\":[{\"message\":{\"content\":..}}]}">>, c) :
        c \in ReplyContents}

OtherResponses ==
    { Resp("response", 200, FALSE, "invalid", <<>>, <<>>),
      Resp("response", 200, TRUE, "invalid", <<"<html>">>, <<>>),
      Resp("response", 200, TRUE, "scalar", <<"5">>, <<>>),
      Resp("response", 200, TRUE, "no_choices", <<"{}">>, <<>>),
      Resp("response", 200, TRUE, "empty_choices", <<"{\"choices\":[]}">>, <<>>),
      Resp("response", 200, TRUE, "bad_choice", <<"{\"choices\":[{}]}">>, <<>>) }

\* an error body of each shape
ErrorBody(code, utf8, json, raw, text) == Resp("http_error", code, utf8, json, raw, text)
Undecodable(code) == ErrorBody(code, FALSE, "invalid", <<>>, <<>>)
NotJSON(code) == ErrorBody(code, TRUE, "invalid", <<"<html>">>, <<>>)
WithMessage(code) ==
    ErrorBody(code, TRUE, "error_message", <<"{\"error\":{\"message\":\"quota\"}}">>, T_quota)

\* 500 stands for the statuses the handler does not name
ErrorResponses ==
    { Undecodable(HTTP_UNAUTHORIZED), NotJSON(HTTP_UNAUTHORIZED), WithMessage(HTTP_UNAUTHORIZED),
      Undecodable(HTTP_TOO_MANY), NotJSON(HTTP_TOO_MANY), WithMessage(HTTP_TOO_MANY),
      Undecodable(HTTP_BAD_REQUEST), NotJSON(HTTP_BAD_REQUEST), WithMessage(HTTP_BAD_REQUEST),
      Undecodable(500), NotJSON(500), WithMessage(500),
      ErrorBody(500, TRUE, "scalar", <<"5">>, <<>>),
      ErrorBody(500, TRUE, "no_error", <<"{}">>, <<>>),
      ErrorBody(500, TRUE, "error_str", <<"{\"error\":\"a message\"}">>, <<>>) }

Responses ==
    SuccessResponses \cup OtherResponses \cup ErrorResponses
    \cup { Resp("exception", 0, TRUE, "none", <<>>, <<"URLError">>),
           Resp("interrupt", 0, TRUE, "none", <<>>, <<>>) }

(***************************************************************************)
(* make_api_request                                                        *)
(***************************************************************************)
\* the result of one call: the transcript afterwards, how the call ended
\* ("return", "raise": an exception leaves the call, "interrupt") and the
\* returned string
Result(history, outcome, returned) ==
    [history |-> history, outcome |-> outcome, returned |-> returned]

\* 'choices' in result and len(result['choices']) > 0
HasChoice(resp) ==
    CASE resp.json = "scalar" -> "raise"
      [] resp.json \in {"choice", "bad_choice"} -> "yes"
      [] OTHER -> "no"

\* OnResponse returning the content without recording it
OnResponse_NoAssistant(history, resp) ==
    IF resp.utf8 /\ resp.json = "choice"
    THEN Result(history, "return", Ret("content", 0, resp.text))
    ELSE IF resp.utf8 /\ resp.json \in {"no_choices", "empty_choices"}
    THEN Result(history, "return", Ret("apology", 0, <<>>))
    ELSE Result(history, "return", Ret("error", 0, <<"Exception">>))

\* OnResponse recording the apology as the assistant's turn
OnResponse_AppendApology(history, resp) ==
    IF resp.utf8 /\ resp.json = "choice"
    THEN Result(Append(history, Message("assistant", resp.text)), "return",
                Ret("content", 0, resp.text))
    ELSE IF resp.utf8 /\ resp.json \in {"no_choices", "empty_choices"}
    THEN Result(Append(history, Message("assistant", <<"s", "o", "r", "r", "y">>)),
                "return", Ret("apology", 0, <<>>))
    ELSE Result(history, "return", Ret("error", 0, <<"Exception">>))

\* lines 53-63: the response was returned by urlopen
OnResponse(history, resp) ==
    IF ~resp.utf8 THEN
        Result(history, "return", Ret("error", 0, <<"UnicodeDecodeError">>))
    ELSE IF resp.json = "invalid" THEN
        Result(history, "return", Ret("error", 0, <<"JSONDecodeError">>))
    ELSE IF HasChoice(resp) = "raise" THEN
        Result(history, "return", Ret("error", 0, <<"TypeError">>))
    ELSE IF HasChoice(resp) = "yes" THEN
        IF resp.json = "bad_choice" THEN
            Result(history, "return", Ret("error", 0, <<"KeyError">>))
        ELSE
            Result(Append(history, Message("assistant", resp.text)), "return",
                   Ret("content", 0, resp.text))
    ELSE
        Result(history, "return", Ret("apology", 0, <<>>))

\* lines 75-76: json.loads(error_msg), then
\* 'error' in error_data and 'message' in error_data['error'], then the
\* subscript error_data['error']['message']; "raise" is swallowed by the
\* bare except of line 78
ErrorMessageLookup(resp) ==
    CASE resp.json = "invalid" -> "raise"
      [] resp.json = "scalar" -> "raise"
      [] resp.json = "error_str" -> "raise"
      [] resp.json = "error_message" -> "found"
      [] OTHER -> "absent"

\* lines 74-80: the statuses the handler does not name
OnOtherStatus(history, resp) ==
    IF ErrorMessageLookup(resp) = "found" THEN
        Result(history, "return", Ret("api_error_message", 0, resp.text))
    ELSE
        Result(history, "return", Ret("api_error_code", resp.code, resp.raw))

\* lines 65-80: except urllib.error.HTTPError
OnHTTPError(history, resp) ==
    IF ~resp.utf8 THEN
        \* e.read().decode('utf-8') raises inside the handler
        Result(history, "raise", Ret("raised", 0, <<"UnicodeDecodeError">>))
    ELSE IF resp.code = HTTP_UNAUTHORIZED THEN
        Result(history, "return", Ret("auth", 0, <<>>))
    ELSE IF resp.code = HTTP_TOO_MANY THEN
        Result(history, "return", Ret("rate_limit", 0, <<>>))
    ELSE IF resp.code = HTTP_BAD_REQUEST THEN
        Result(history, "return", Ret("bad_request", 0, <<>>))
    ELSE OnOtherStatus(history, resp)

\* line 29
AppendUser(history, message) == Append(history, Message("user", message))

\* the call with the result of OnResponse, OnHTTPError or the other handlers,
\* and the messages serialised into the request (lines 32-40)
Exchange(messages, r) ==
    [history |-> r.history, outcome |-> r.outcome, returned |-> r.returned,
     messages |-> messages]

\* make_api_request adding the user message only once the response is in
make_api_request_UserAfter(history, message, resp) ==
    LET h1 == AppendUser(history, message) IN
    CASE resp.kind = "response" -> Exchange(history, OnResponse(h1, resp))
      [] resp.kind = "http_error" -> Exchange(history, OnHTTPError(h1, resp))
      [] resp.kind = "exception" ->
            Exchange(history, Result(h1, "return", Ret("error", 0, resp.text)))
      [] OTHER -> Exchange(history, Result(history, "interrupt", Ret("interrupted", 0, <<>>)))

make_api_request(history, message, resp) ==
    LET h1 == AppendUser(history, message) IN
    CASE resp.kind = "response" -> Exchange(h1, OnResponse(h1, resp))
      [] resp.kind = "http_error" -> Exchange(h1, OnHTTPError(h1, resp))
      [] resp.kind = "exception" ->
            Exchange(h1, Result(h1, "return", Ret("error", 0, resp.text)))
      [] OTHER -> Exchange(h1, Result(h1, "interrupt", Ret("interrupted", 0, <<>>)))

(***************************************************************************)
(* What the loop prints: one record per printed line.                      *)
(***************************************************************************)
Line(kind, idx, label, text) ==
    [kind |-> kind, idx |-> idx, label |-> label, text |-> text]
Plain(kind) == Line(kind, 0, "", <<>>)

\* Truncate cutting at the limit itself
Truncate_AtLimit(content) ==
    IF Len(content) >= HistoryLimit
    THEN SubSeq(content, 1, HistoryLimit) \o <<".", ".", ".">>
    ELSE content

\* line 125
Truncate(content) ==
    IF Len(content) > HistoryLimit
    THEN SubSeq(content, 1, HistoryLimit) \o <<".", ".", ".">>
    ELSE content

\* line 123
RoleLabel(role) == IF role = "user" THEN "You" ELSE "AI"

\* lines 122-126, one message
HistoryLine(i, msg) ==
    Line("history_line", i, RoleLabel(msg.role), Truncate(msg.content))

show_history(history) ==
    IF Len(history) = 0 THEN <<Plain("no_history")>>
    ELSE <<Line("history_header", Len(history), "", <<>>), Plain("rule")>>
         \o [i \in 1..Len(history) |-> HistoryLine(i, history[i])]
         \o <<Plain("blank")>>

\* reset_history that only prints
reset_history_PrintOnly(history) == history

\* self.conversation_history.clear()
reset_history(history) == <<>>

show_model_info(m, tokens, history, key) ==
    <<Plain("configuration"), Line("cfg_model", 0, m, <<>>),
      Line("cfg_max_tokens", tokens, "", <<>>),
      Line("cfg_messages", Len(history), "", <<>>),
      Line("cfg_api_key", 0, key, <<>>), Plain("blank")>>

(***************************************************************************)
(* switch_models                                                           *)
(***************************************************************************)
\* what input() of line 157 can do: return text, raise EOFError, or be
\* interrupted
Sel(kind, text) == [kind |-> kind, text |-> text]
NoSel == Sel("none", <<>>)

Selections ==
    { Sel("text", t) : t \in { <<>>, <<" ">>, <<"1">>, <<" ", "2", " ">>, <<"3">>,
                               <<"0">>, <<"4">>, <<"1", "2">>, <<"0", "2">>,
                               <<"-", "1">>, <<"a">>, <<"SUP2">> } }
    \cup { Sel("eof", <<>>), Sel("interrupt", <<>>) }

\* lines 151-154
ModelOptions(m) ==
    [i \in 1..Len(models) |->
        Line("model_option", i, models[i],
             IF models[i] = m THEN <<"(current)">> ELSE <<>>)]

\* lines 160-164
SelectIndex(m, choice_idx) ==
    IF 0 <= choice_idx /\ choice_idx < Len(models)
    THEN [model |-> models[choice_idx + 1], line |-> "switched"]
    ELSE [model |-> m, line |-> "invalid_selection"]

\* SelectText taking the number typed as the 0-based index
SelectText_NoMinusOne(m, text) ==
    LET choice == Strip(text) IN
    IF Len(choice) > 0 /\ IsDigit(choice) THEN
        IF IntParses(choice) THEN SelectIndex(m, IntOf(choice))
        ELSE [model |-> m, line |-> "error_switching"]
    ELSE [model |-> m, line |-> "cancelled"]

\* lines 157-168, for a selection that was read
SelectText(m, text) ==
    LET choice == Strip(text) IN
    IF Len(choice) > 0 /\ IsDigit(choice) THEN
        IF IntParses(choice) THEN SelectIndex(m, IntOf(choice) - 1)
        ELSE [model |-> m, line |-> "error_switching"]
    ELSE [model |-> m, line |-> "cancelled"]

\* switch_models whose handler catches the interrupt too
switch_models_CatchAll(m, sel) ==
    IF sel.kind \in {"interrupt", "eof"} THEN
        [model |-> m, outcome |-> "done",
         lines |-> <<Plain("available_models")>> \o ModelOptions(m)
                   \o <<Plain("error_switching"), Plain("blank")>>]
    ELSE
        LET r == SelectText(m, sel.text) IN
        [model |-> r.model, outcome |-> "done",
         lines |-> <<Plain("available_models")>> \o ModelOptions(m)
                   \o <<Line(r.line, 0, IF r.line = "switched" THEN r.model ELSE "", <<>>),
                       Plain("blank")>>]

\* the whole method: the model afterwards, how it ended, what it printed
switch_models(m, sel) ==
    CASE sel.kind = "interrupt" ->
            [model |-> m, outcome |-> "interrupt",
             lines |-> <<Plain("available_models")>> \o ModelOptions(m)]
      [] sel.kind = "eof" ->
            [model |-> m, outcome |-> "done",
             lines |-> <<Plain("available_models")>> \o ModelOptions(m)
                       \o <<Plain("error_switching"), Plain("blank")>>]
      [] OTHER ->
            LET r == SelectText(m, sel.text) IN
            [model |-> r.model, outcome |-> "done",
             lines |-> <<Plain("available_models")>> \o ModelOptions(m)
                       \o <<Line(r.line, 0, IF r.line = "switched" THEN r.model ELSE "", <<>>),
                           Plain("blank")>>]

(***************************************************************************)
(* run: the dispatch of one input line                                     *)
(***************************************************************************)
ExitWords == {W_quit, W_exit, W_bye}

\* Command comparing the input as typed
Command_NoLower(line) ==
    LET user_input == Strip(line)
        command == user_input
    IN  IF Len(user_input) = 0 THEN "empty"
        ELSE IF command \in ExitWords THEN "quit"
        ELSE IF command = W_clear THEN "clear"
        ELSE IF command = W_help THEN "help"
        ELSE IF command = W_history THEN "history"
        ELSE IF command = W_reset THEN "reset"
        ELSE IF command = W_model THEN "model"
        ELSE IF command = W_models THEN "models"
        ELSE "chat"

\* lines 181-217
Command(line) ==
    LET user_input == Strip(line)
        command == Lower(user_input)
    IN  IF Len(user_input) = 0 THEN "empty"
        ELSE IF command \in ExitWords THEN "quit"
        ELSE IF command = W_clear THEN "clear"
        ELSE IF command = W_help THEN "help"
        ELSE IF command = W_history THEN "history"
        ELSE IF command = W_reset THEN "reset"
        ELSE IF command = W_model THEN "model"
        ELSE IF command = W_models THEN "models"
        ELSE "chat"

InputLines ==
    { <<>>, <<" ", "\t">>,
      W_quit, <<" ", "E", "X", "I", "T", " ">>, <<"B", "y", "e">>,
      W_clear, W_help, <<"H", "i", "s", "t", "o", "r", "y">>,
      W_reset \o <<" ">>, W_model, <<"M", "O", "D", "E", "L", "S">>,
      <<" ", "H", "i", "\t">>, W_help \o <<"s">> }

\* the dispatch of each input line (evaluated once)
CommandOf == [line \in InputLines |-> Command(line)]


(***************************************************************************)
(* State.                                                                  *)
(***************************************************************************)
VARIABLES
    conversation_history,  \* self.conversation_history
    model,                 \* self.model
    api_key,               \* self.api_key
    api_url,               \* self.api_url
    max_tokens,            \* self.max_tokens
    running,               \* the while True loop of run() has not been left
    event,                 \* what the latest iteration read: line, selection, response
    request,               \* the request the latest iteration sent, if any
    returned,              \* what make_api_request returned in the latest iteration
    output,                \* what the latest iteration printed
    calls,                 \* the submissions since the transcript was last empty
    with_choice            \* each of them was answered by a 200 body with a choice

vars == <<conversation_history, model, api_key, api_url, max_tokens, running,
          event, request, returned, output, calls, with_choice>>

\* what an iteration read: how input() of line 181 ended ("line", "eof",
\* "interrupt"), the line, the selection and the response, with the command
\* run and the length of the transcript when the iteration began
Event(op, read, line, sel, resp, before) ==
    [op |-> op, read |-> read, line |-> line, sel |-> sel, resp |-> resp,
     before |-> before]

\* 'choices' in result and len(result['choices']) > 0, as a fact of the body
HadChoice(resp) ==
    resp.kind = "response" /\ resp.utf8 /\ resp.json \in {"choice", "bad_choice"}

\* one submission: its text, whether the response was a 200 body whose first
\* choice carries message.content, and that content
Call(text, resp) ==
    LET ok == resp.kind = "response" /\ resp.utf8 /\ resp.json = "choice" IN
    [text |-> text, ok |-> ok, content |-> IF ok THEN resp.text ELSE <<>>]

\* __init__, then the start of run()
Init ==
    /\ conversation_history = <<>>
    /\ model = DefaultModel
    /\ api_key = DefaultApiKey
    /\ api_url = DefaultApiUrl
    /\ max_tokens = DefaultMaxTokens
    /\ running = TRUE
    /\ event = Event("start", "none", <<>>, NoSel, NoResp, 0)
    /\ request = NoRequest
    /\ returned = NoReturn
    /\ output = <<Plain("header"), Plain("greeting")>>
    /\ calls = <<>>
    /\ with_choice = TRUE

\* no statement of the program assigns these fields
ConfigUnchanged == UNCHANGED <<api_key, api_url, max_tokens>>

\* an iteration that only prints
LocalOnly(op, read, line, lines) ==
    /\ event' = Event(op, read, line, NoSel, NoResp, Len(conversation_history))
    /\ output' = lines
    /\ request' = NoRequest
    /\ returned' = NoReturn
    /\ ConfigUnchanged
    /\ UNCHANGED <<conversation_history, model, running, calls, with_choice>>

\* line 181 raises KeyboardInterrupt: lines 226-228
ReadInterrupt ==
    /\ running
    /\ event' = Event("read_interrupt", "interrupt", <<>>, NoSel, NoResp,
                      Len(conversation_history))
    /\ output' = <<Plain("farewell_interrupt")>>
    /\ running' = FALSE
    /\ request' = NoRequest
    /\ returned' = NoReturn
    /\ ConfigUnchanged
    /\ UNCHANGED <<conversation_history, model, calls, with_choice>>

\* line 181 raises another exception (EOFError): lines 229-231
ReadFail ==
    /\ running
    /\ LocalOnly("read_fail", "eof", <<>>, <<Plain("unexpected_error"), Plain("try_again")>>)

\* lines 184-185
EmptyInput ==
    /\ running
    /\ \E line \in InputLines :
        /\ CommandOf[line] = "empty"
        /\ LocalOnly("empty", "line", line, <<>>)

\* lines 190-192
Quit ==
    /\ running
    /\ \E line \in InputLines :
        /\ CommandOf[line] = "quit"
        /\ event' = Event("quit", "line", line, NoSel, NoResp, Len(conversation_history))
        /\ output' = <<Plain("farewell")>>
        /\ running' = FALSE
        /\ request' = NoRequest
        /\ returned' = NoReturn
        /\ ConfigUnchanged
        /\ UNCHANGED <<conversation_history, model, calls, with_choice>>

\* lines 194-197
Clear ==
    /\ running
    /\ \E line \in InputLines :
        /\ CommandOf[line] = "clear"
        /\ LocalOnly("clear", "line", line, <<Plain("header")>>)

\* lines 199-201
Help ==
    /\ running
    /\ \E line \in InputLines :
        /\ CommandOf[line] = "help"
        /\ LocalOnly("help", "line", line, <<Plain("help")>>)

\* lines 203-205
History ==
    /\ running
    /\ \E line \in InputLines :
        /\ CommandOf[line] = "history"
        /\ LocalOnly("history", "line", line, show_history(conversation_history))

\* lines 207-209
Reset ==
    /\ running
    /\ \E line \in InputLines :
        /\ CommandOf[line] = "reset"
        /\ conversation_history' = reset_history(conversation_history)
        /\ calls' = <<>>
        /\ with_choice' = TRUE
        /\ event' = Event("reset", "line", line, NoSel, NoResp, Len(conversation_history))
        /\ output' = <<Plain("history_reset")>>
        /\ request' = NoRequest
        /\ returned' = NoReturn
        /\ ConfigUnchanged
        /\ UNCHANGED <<model, running>>

\* lines 211-213
ModelInfo ==
    /\ running
    /\ \E line \in InputLines :
        /\ CommandOf[line] = "model"
        /\ LocalOnly("model", "line", line,
                     show_model_info(model, max_tokens, conversation_history, api_key))

\* lines 215-217, with the interrupt of lines 226-228
Models ==
    /\ running
    /\ \E line \in InputLines, sel \in Selections :
        /\ CommandOf[line] = "models"
        /\ LET r == switch_models(model, sel) IN
            /\ model' = r.model
            /\ running' = (r.outcome # "interrupt")
            /\ output' = IF r.outcome = "interrupt"
                         THEN r.lines \o <<Plain("farewell_interrupt")>>
                         ELSE r.lines
        /\ event' = Event("models", "line", line, sel, NoResp, Len(conversation_history))
        /\ request' = NoRequest
        /\ returned' = NoReturn
        /\ ConfigUnchanged
        /\ UNCHANGED <<conversation_history, calls, with_choice>>

\* what lines 220-231 print for a call of make_api_request
ChatOutput(r) ==
    CASE r.outcome = "return" ->
            <<Plain("thinking"), Line("ai", r.returned.code, r.returned.kind, r.returned.text)>>
      [] r.outcome = "raise" ->
            <<Plain("thinking"), Plain("unexpected_error"), Plain("try_again")>>
      [] OTHER ->
            <<Plain("thinking"), Plain("farewell_interrupt")>>

\* lines 219-224, with the handlers of lines 226-231
Chat ==
    /\ running
    /\ Len(conversation_history) + 2 <= MaxHistory
    /\ \E line \in InputLines, resp \in Responses :
        /\ CommandOf[line] = "chat"
        /\ LET user_input == Strip(line)
               r == make_api_request(conversation_history, user_input, resp)
           IN
            /\ conversation_history' = r.history
            /\ returned' = r.returned
            /\ running' = (r.outcome # "interrupt")
            /\ output' = ChatOutput(r)
            /\ request' = RequestData(model, r.messages, max_tokens, api_url, api_key)
            /\ calls' = Append(calls, Call(user_input, resp))
            /\ with_choice' = (with_choice /\ HadChoice(resp))
        /\ event' = Event("chat", "line", line, NoSel, resp, Len(conversation_history))
        /\ ConfigUnchanged
        /\ UNCHANGED model

Next ==
    \/ ReadInterrupt
    \/ ReadFail
    \/ EmptyInput
    \/ Quit
    \/ Clear
    \/ Help
    \/ History
    \/ Reset
    \/ ModelInfo
    \/ Models
    \/ Chat

Spec == Init /\ [][Next]_vars


(***************************************************************************)
(* Properties.  The inputs they speak of are named by enumeration, not by  *)
(* the operators of the model.                                             *)
(***************************************************************************)
IsPrefix(a, b) == Len(a) <= Len(b) /\ SubSeq(b, 1, Len(a)) = a

\* the input lines by what the loop is to do with them
QuitInputs == {W_quit, <<" ", "E", "X", "I", "T", " ">>, <<"B", "y", "e">>}
ResetInputs == {W_reset \o <<" ">>}
HistoryInputs == {<<"H", "i", "s", "t", "o", "r", "y">>}
ModelsInputs == {<<"M", "O", "D", "E", "L", "S">>}
QuietInputs ==
    {<<>>, <<" ", "\t">>, W_clear, W_help, W_model} \cup HistoryInputs \cup ModelsInputs
\* the chat inputs and the text submitted for each
Submitted(line) ==
    CASE line = <<" ", "H", "i", "\t">> -> T_Hi
      [] line = <<"h", "e", "l", "p", "s">> -> <<"h", "e", "l", "p", "s">>
      [] OTHER -> <<"?">>
ChatInputs == {<<" ", "H", "i", "\t">>, <<"h", "e", "l", "p", "s">>}

ReadLineOf(e, lines) == e.read = "line" /\ e.line \in lines

\* a submission and how the claims class its response
IsChat(e) == ReadLineOf(e, ChatInputs)
Succeeded(resp) == resp.kind = "response" /\ resp.utf8 /\ resp.json = "choice"
FailedKind(resp) ==
    \/ resp.kind \in {"http_error", "exception"}
    \/ resp.kind = "response" /\ ~Succeeded(resp)

\* the transcript n successful submissions are to leave
RECURSIVE Pairs(_)
Pairs(cs) ==
    IF Len(cs) = 0 THEN <<>>
    ELSE Pairs(SubSeq(cs, 1, Len(cs) - 1))
         \o <<Message("user", cs[Len(cs)].text), Message("assistant", cs[Len(cs)].content)>>

AllOk(cs) == \A i \in 1..Len(cs) : cs[i].ok

\* C1 (as amended): starting from an empty transcript, after n submissions
\* that were each answered by a 200 body whose first choice carries
\* message.content, the transcript is the n (user, assistant) pairs in call
\* order, of length 2*n, and the latest call returned that content.
C1_SuccessfulPairs ==
    AllOk(calls) =>
        /\ Len(conversation_history) = 2 * Len(calls)
        /\ conversation_history = Pairs(calls)
        /\ (IsChat(event) =>
                /\ calls[Len(calls)].text = Submitted(event.line)
                /\ calls[Len(calls)].content = event.resp.text
                /\ returned = Ret("content", 0, event.resp.text))

C1_Witness ==
    /\ Len(calls) = 2 /\ AllOk(calls)
    /\ calls[1].text # calls[2].text
    /\ calls[1].content # calls[2].content
    /\ IsChat(event)

\* C1 (as stated): success is a 200 response with at least one choice; after
\* n of them from an empty transcript the transcript has length 2*n.
C1_AsStated ==
    with_choice => Len(conversation_history) = 2 * Len(calls)

\* C2: a failed submission (HTTP error status, transport or parse exception,
\* a 200 body without a usable choice) leaves the transcript as it was with
\* exactly one user Message carrying the submitted text appended.
C2_FailedAppendsUserOnly ==
    [][IsChat(event') /\ FailedKind(event'.resp) =>
          conversation_history' =
              Append(conversation_history, Message("user", Submitted(event'.line)))]_vars

C2_Witness ==
    /\ IsChat(event) /\ event.resp.kind = "http_error"
    /\ event.resp.code = HTTP_UNAUTHORIZED
    /\ Len(conversation_history) = 3
    /\ conversation_history[2].role = "assistant"
    /\ conversation_history[3] = Message("user", T_Hi)

\* C3 (as stated): each failure kind is mapped to its fixed returned string:
\* 401, 429 and 400 whatever the body, any other status to error.message
\* when the body is JSON holding it and to the generic message with code and
\* raw body otherwise, a 200 body without choices to the apology, an
\* exception to "Error: <description>".
C3_ErrorMapping ==
    IsChat(event) =>
        LET r == event.resp IN
        /\ (r.kind = "http_error" /\ r.code = 401 => returned = Ret("auth", 0, <<>>))
        /\ (r.kind = "http_error" /\ r.code = 429 => returned = Ret("rate_limit", 0, <<>>))
        /\ (r.kind = "http_error" /\ r.code = 400 => returned = Ret("bad_request", 0, <<>>))
        /\ (r.kind = "http_error" /\ r.code \notin {401, 429, 400} =>
                IF r.utf8 /\ r.json = "error_message"
                THEN returned = Ret("api_error_message", 0, r.text)
                ELSE returned = Ret("api_error_code", r.code, r.raw))
        /\ (r.kind = "response" /\ r.utf8 /\ r.json \in {"no_choices", "empty_choices"} =>
                returned = Ret("apology", 0, <<>>))
        /\ (r.kind = "exception" => returned = Ret("error", 0, r.text))

\* C4 (as stated): whatever goes wrong during a submission, short of an
\* interrupt, make_api_request returns a string: no exception leaves it.
C4_NeverRaises ==
    IsChat(event) /\ event.resp.kind # "interrupt" =>
        /\ returned.kind \notin {"raised", "none", "interrupted"}
        /\ output[Len(output)].kind = "ai"

\* C5: reset leaves a transcript of length 0 whatever came before, and
\* leaves the model identifier and the other configuration alone.
C5_ResetClears ==
    [][ReadLineOf(event', ResetInputs) =>
          /\ Len(conversation_history') = 0
          /\ model' = model
          /\ api_key' = api_key /\ api_url' = api_url /\ max_tokens' = max_tokens]_vars

C5_Witness ==
    /\ ReadLineOf(event, ResetInputs)
    /\ event.before = 4
    /\ model = models[2]
    /\ Len(conversation_history) = 0


\* the selections by the number they write: 1, 2 or 3, and 0 for the rest
SelValue(text) ==
    CASE text = <<"1">> -> 1
      [] text = <<" ", "2", " ">> -> 2
      [] text = <<"0", "2">> -> 2
      [] text = <<"3">> -> 3
      [] OTHER -> 0
\* numbers that are no index of the list
UnsignedOutOfRange == {<<"0">>, <<"4">>, <<"1", "2">>}
NegativeNumbers == {<<"-", "1">>}
NotNumbers == {<<>>, <<" ">>, <<"a">>}

IsModels(e) == ReadLineOf(e, ModelsInputs)
Printed(out, kind) == \E i \in 1..Len(out) : out[i].kind = kind

\* the model identifier changes only in the models command, on 1, 2 or 3,
\* and then becomes that entry of the list
ModelChangesOnlyOnValidIndex ==
    /\ (model' # model =>
            IsModels(event') /\ event'.sel.kind = "text" /\ SelValue(event'.sel.text) \in 1..3)
    /\ (IsModels(event') /\ event'.sel.kind = "text" /\ SelValue(event'.sel.text) \in 1..3 =>
            model' = models[SelValue(event'.sel.text)])

\* C6 (as amended): a selection that is no valid 1-based index leaves the
\* model identifier unchanged; 0 or a number greater than 3 prints the
\* invalid-selection message, while a negative number, non-numeric text and
\* empty input print the cancellation message; the identifier changes only
\* on 1, 2 or 3 and becomes that entry.
C6_ModelSelection ==
    [][/\ ModelChangesOnlyOnValidIndex
       /\ (IsModels(event') /\ event'.sel.kind = "text" =>
            /\ (event'.sel.text \in UnsignedOutOfRange =>
                    Printed(output', "invalid_selection") /\ model' = model)
            /\ (event'.sel.text \in NegativeNumbers \cup NotNumbers =>
                    Printed(output', "cancelled") /\ model' = model))]_vars

C6_Witness ==
    /\ IsModels(event) /\ event.sel = Sel("text", <<"-", "1">>)
    /\ model = models[3]
    /\ Printed(output, "cancelled")

\* C6 (as stated): a selection that is no valid 1-based index leaves the
\* model identifier unchanged, and an out-of-range index (0, a number
\* greater than 3, a negative number) prints the invalid-selection message.
C6_AsStated ==
    [][/\ ModelChangesOnlyOnValidIndex
       /\ (IsModels(event') /\ event'.sel.kind = "text"
             /\ event'.sel.text \in UnsignedOutOfRange \cup NegativeNumbers =>
                Printed(output', "invalid_selection") /\ model' = model)]_vars

\* C7: but for reset the transcript is append-only; it grows, and a request
\* is sent, only on a non-empty input that is no command; empty input and
\* clear, help, history, model, models leave it alone and send nothing; the
\* model identifier changes only in models; endpoint, credential, token
\* limit and temperature never change.
C7_AppendOnlyFrame ==
    [][/\ (~ReadLineOf(event', ResetInputs) =>
                IsPrefix(conversation_history, conversation_history'))
       /\ (conversation_history' # conversation_history /\ ~ReadLineOf(event', ResetInputs) =>
                IsChat(event'))
       /\ (request'.sent => IsChat(event'))
       /\ (ReadLineOf(event', QuietInputs) =>
                conversation_history' = conversation_history /\ ~request'.sent)
       /\ (model' # model => IsModels(event'))
       /\ api_url' = api_url /\ api_key' = api_key /\ max_tokens' = max_tokens
       /\ (request'.sent =>
                /\ request'.url = DefaultApiUrl /\ request'.authorization = DefaultApiKey
                /\ request'.max_tokens = 1000 /\ request'.temperature = 7
                /\ request'.model = model)]_vars

C7_Witness ==
    /\ ReadLineOf(event, HistoryInputs)
    /\ Len(conversation_history) = 3
    /\ event.before = 3
    /\ ~request.sent
    /\ model = models[1]

\* how an iteration is to end the loop: quit, exit or bye, or an interrupt
\* at the prompt, at the models prompt or during the request
Terminating(e) ==
    \/ e.read = "interrupt"
    \/ ReadLineOf(e, QuitInputs)
    \/ e.sel.kind = "interrupt"
    \/ e.resp.kind = "interrupt"

Shown(content) ==
    IF Len(content) <= 100 THEN content
    ELSE [j \in 1..103 |-> IF j <= 100 THEN content[j] ELSE "."]

\* C9: history prints one line per Message, in order, with its 1-based index
\* and the label You (user) or AI (assistant); a content of more than 100
\* characters is shown as its first 100 and an ellipsis, one of 100 or fewer
\* as it is; the transcript is not modified.
C9_HistoryDisplay ==
    [][ReadLineOf(event', HistoryInputs) =>
        /\ conversation_history' = conversation_history
        /\ LET h == conversation_history
               shown == SelectSeq(output', LAMBDA l : l.kind = "history_line")
           IN  /\ Len(shown) = Len(h)
               /\ \A i \in 1..Len(h) :
                    /\ shown[i].idx = i
                    /\ shown[i].label = (IF h[i].role = "user" THEN "You" ELSE "AI")
                    /\ h[i].role \in {"user", "assistant"}
                    /\ shown[i].text = Shown(h[i].content)]_vars

C9_Witness ==
    /\ ReadLineOf(event, HistoryInputs)
    /\ Len(conversation_history) = 4
    /\ conversation_history[1].content = T_Hi
    /\ conversation_history[2].content = T_long100
    /\ conversation_history[4].content = T_long101
    /\ Len(output) = 7
    /\ Len(output[6].text) = 103

\* for each Message of the transcript, whether the submission it belongs to
\* succeeded
RECURSIVE Owners(_)
Owners(cs) ==
    IF Len(cs) = 0 THEN <<>>
    ELSE Owners(SubSeq(cs, 1, Len(cs) - 1))
         \o (IF cs[Len(cs)].ok THEN <<TRUE, TRUE>> ELSE <<FALSE>>)

\* C10: the transcript is empty or starts with a user Message; every
\* assistant Message comes right after a user Message; the last Message of
\* the transcript sent in a request is the user Message just submitted; two
\* user Messages are adjacent only when the earlier belongs to a failed
\* exchange.
C10_TranscriptShape ==
    LET h == conversation_history IN
    /\ (Len(h) > 0 => h[1].role = "user")
    /\ \A i \in 1..Len(h) :
         h[i].role = "assistant" => i > 1 /\ h[i - 1].role = "user"
    /\ (request.sent =>
            /\ Len(request.messages) > 0
            /\ request.messages[Len(request.messages)] =
                    Message("user", Submitted(event.line)))
    /\ Len(Owners(calls)) = Len(h)
    /\ \A i \in 1..(Len(h) - 1) :
         h[i].role = "user" /\ h[i + 1].role = "user" => ~Owners(calls)[i]

C10_Witness ==
    /\ Len(conversation_history) = 4
    /\ conversation_history[1].role = "user"
    /\ conversation_history[2].role = "user"
    /\ conversation_history[3].role = "user"
    /\ conversation_history[4].role = "assistant"
    /\ model = models[2]
    /\ request.sent

====
